---- MODULE Spec2Model ----
(***************************************************************************)
(* Model of the Playback/Capture/Scan orchestrator of shoppable-vision:    *)
(* the scan-products edge function (supabase/functions/scan-products)      *)
(* and the VideoPlayer page that calls it.                                 *)
(*                                                                         *)
(* Text is modelled as sequences of tokens.  A token is one lexical unit   *)
(* the code distinguishes: the fence (three backticks), the word "json", a newline,    *)
(* a no-break space (whitespace for String.trim, not for JSON.parse),      *)
(* the JSON brackets and comma, and one token per JSON scalar or object.   *)
(***************************************************************************)
EXTENDS Integers, Sequences, FiniteSets, TLC

VARIABLES
    \* ---- the scan-products edge function (one invocation) ----
    request,         \* the request body of this invocation
    upstream,        \* what the AI gateway answers to this invocation
    response,        \* the Response the handler returns
    svcPc,           \* "start" | "done"
    \* ---- the VideoPlayer page ----
    source,          \* which VideoPlayer source is mounted: 1 (lines 1-773), 2 (774-1238)
    mounted,         \* is the page mounted
    id,              \* useParams().id
    video,           \* useState video (a library id or NoVideo)
    fetches,         \* fetchVideo calls awaiting their reply (the id each asked for)
    isPlaying,
    isScanning,
    scannedProducts,
    showProducts,
    videoWidth,      \* videoRef.current.videoWidth
    videoHeight,     \* videoRef.current.videoHeight
    ytPlayerRef,     \* ytPlayerRef.current is set
    ytReady,
    inflight,        \* classification requests awaiting their reply: the body sent,
                     \* the video shown when it was sent, whether its view is alive
    toast,           \* the toast raised by the last step
    last,            \* the event handled by the last step, with its input
    \* ---- extractYoutubeId, as a one-step process ----
    url,             \* the locator it is given (the pieces it is written with)
    ytId,            \* what it returns ("" for null)
    exPc,            \* "start" | "done"
    dashYtId,        \* what the Dashboard's extractYoutubeId returns for it
    dashPc,          \* "start" | "done"
    \* ---- the map over data.products that places the overlays ----
    productCount,    \* data.products.length
    index,           \* the index the callback is called with next
    position,        \* the position given to the product before it
    \* ---- the Dashboard page and the videos table ----
    rows,            \* the ids of the rows of the videos table
    nextVideo,       \* the id the next inserted row gets
    videos,          \* useState videos: the ids listed, newest first
    dashOps,         \* requests to the table awaiting their handler
    dashToast,       \* the title of the toast raised by the last step
    refused,         \* the table has answered some request with an error
    loading,         \* useState loading of the Dashboard
    \* ---- the embedded (YouTube IFrame API) player of the VideoPlayer page ----
    windowYT,        \* window.YT: "absent" | "loading" (script tag inserted) | "ready"
    apiReadyCallback,\* the videoId window.onYouTubeIframeAPIReady was set for ("" none)
    ytPlayers,       \* the YT.Player instances constructed, oldest first;
                     \* ytPlayerRef.current is the last one
    ytIntervalRef,   \* ytIntervalRef.current: 0, or the timer set by that instance
    timers,          \* the interval timers that are running
    scriptTags,      \* the iframe_api script tags inserted in the document
    \* ---- the playback position shown by the VideoPlayer page ----
    currentTime,     \* useState currentTime
    duration,        \* useState duration
    mediaTime,       \* the position of the backend: the element's currentTime, or
                     \* what the player's getCurrentTime() returns
    mediaReady       \* the backend of the video on screen has signalled ready:
                     \* loadedmetadata of the element, onReady of the player

svcVars == <<request, upstream, response, svcPc>>
pageVars == <<source, mounted, id, video, fetches, isPlaying, isScanning,
              scannedProducts, showProducts, videoWidth, videoHeight,
              ytPlayerRef, ytReady, inflight, toast, last>>
exVars == <<url, ytId, exPc, dashYtId, dashPc>>
placeVars == <<productCount, index, position>>
dashVars == <<rows, nextVideo, videos, dashOps, dashToast, refused, loading>>
ytVars == <<windowYT, apiReadyCallback, ytPlayers, ytIntervalRef, timers, scriptTags>>
timeVars == <<currentTime, duration, mediaTime, mediaReady>>
auxVars == <<url, ytId, exPc, dashYtId, dashPc, productCount, index, position,
             rows, nextVideo, videos, dashOps, dashToast, refused, loading,
             windowYT, apiReadyCallback, ytPlayers, ytIntervalRef, timers, scriptTags,
             currentTime, duration, mediaTime, mediaReady>>
vars == <<request, upstream, response, svcPc, source, mounted, id, video, fetches,
          isPlaying, isScanning, scannedProducts, showProducts, videoWidth,
          videoHeight, ytPlayerRef, ytReady, inflight, toast, last,
          url, ytId, exPc, dashYtId, dashPc, productCount, index, position,
          rows, nextVideo, videos, dashOps, dashToast, refused, loading,
          windowYT, apiReadyCallback, ytPlayers, ytIntervalRef, timers, scriptTags,
          currentTime, duration, mediaTime, mediaReady>>

(***************************************************************************)
(* Bounds                                                                  *)
(***************************************************************************)
MaxRawLen == 4       \* longest arbitrary token string given to the parser
MaxEntries == 3      \* longest well-formed array given to the parser
MaxInflight == 2     \* classification requests awaiting a reply at once
MaxUrlLen == 3       \* most pieces in an arbitrary locator
MaxProducts == 13    \* most products in one reply
MaxVideos == 3       \* rows ever inserted in the videos table
MaxOps == 2          \* requests of the Dashboard awaiting their handler at once
MaxPlayers == 2      \* YT.Player instances constructed by one page
MaxTags == 2         \* iframe_api script tags inserted in one session
MaxPending == 20     \* furthest start position seekBy gives an element without metadata

Seqs(S, n) == UNION {[1..k -> S] : k \in 0..n}

(***************************************************************************)
(* Tokens                                                                  *)
(***************************************************************************)
FENCE == "FENCE"   \* three backticks
JSONW == "json"
NL == "NL"
NBSP == "NBSP"
LB == "["
RB == "]"
COMMA == ","

Absent == "absent"

\* JSON values that can stand as an element (or as the whole answer).
\* name: a string (sequence of characters), null, or absent.
StrName(s) == [t |-> "str", s |-> s]
NullName == [t |-> "null", s |-> <<>>]
NoName == [t |-> Absent, s |-> <<>>]

Obj(n, c, k) == [type |-> "object", name |-> n, category |-> c, confidence |-> k]
Scalar(t) == [type |-> t, name |-> NoName, category |-> Absent, confidence |-> Absent]

\* confidence is kept in hundredths (92 is 0.92), in a sequence that is
\* empty when the entry has no confidence field.
Entries ==
    [ eFull    |-> Obj(StrName(<<"b", "a", "g">>), "Fashion", <<92>>),
      eNoConf  |-> Obj(StrName(<<"a", " ", "&">>), "Fashion", <<>>),
      eZero    |-> Obj(StrName(<<"b", "a", "g">>), "Home", <<0>>),
      eNoCat   |-> Obj(StrName(<<"b", "a", "g">>), Absent, <<50>>),
      eNoName  |-> Obj(NoName, "Fashion", <<50>>),
      eNullNm  |-> Obj(NullName, "Fashion", <<>>),
      eEmptyNm |-> Obj(StrName(<<>>), "Fashion", <<50>>),
      eSurr    |-> Obj(StrName(<<"SUR">>), "Fashion", <<92>>),
      eOver    |-> Obj(StrName(<<"b", "a", "g">>), "Fashion", <<150>>),
      eNull    |-> Scalar("null"),
      eStr     |-> Scalar("string"),
      eArr     |-> Scalar("array") ]

EntryNames == DOMAIN Entries

(***************************************************************************)
(* String helpers                                                          *)
(***************************************************************************)
StartsWith(s, p) == Len(s) >= Len(p) /\ SubSeq(s, 1, Len(p)) = p

DropHead(s, n) == SubSeq(s, n + 1, Len(s))

DropTail(s, n) == SubSeq(s, 1, Len(s) - n)

\* String.prototype.trim: strips every whitespace character, the no-break
\* space included.
TrimSpace == {NL, NBSP}

RECURSIVE TrimLeft(_)
TrimLeft(s) ==
    IF s # <<>> /\ Head(s) \in TrimSpace THEN TrimLeft(Tail(s)) ELSE s

RECURSIVE TrimRight(_)
TrimRight(s) ==
    IF s # <<>> /\ s[Len(s)] \in TrimSpace THEN TrimRight(DropTail(s, 1)) ELSE s

Trim(s) == TrimRight(TrimLeft(s))

\* s.replace(/^<prefix>\n?/, "") for a prefix of n tokens that s starts with
ReplaceOpenFence(s, n) ==
    LET r == DropHead(s, n)
    IN  IF r # <<>> /\ Head(r) = NL THEN Tail(r) ELSE r

\* s.replace(/\n?FENCE$/, "")
ReplaceCloseFence(s) ==
    IF s # <<>> /\ s[Len(s)] = FENCE
    THEN IF Len(s) >= 2 /\ s[Len(s) - 1] = NL THEN DropTail(s, 2) ELSE DropTail(s, 1)
    ELSE s

\* the mutant: the closing fence is left in place
CleanContentKeepClose(content) ==
    LET c == Trim(content)
    IN  IF StartsWith(c, <<FENCE, JSONW>>) THEN ReplaceOpenFence(c, 2)
        ELSE IF StartsWith(c, <<FENCE>>) THEN ReplaceOpenFence(c, 1)
        ELSE c

\* index.ts 128-133
CleanContent(content) ==
    LET c == Trim(content)
    IN  IF StartsWith(c, <<FENCE, JSONW>>)
        THEN ReplaceCloseFence(ReplaceOpenFence(c, 2))
        ELSE IF StartsWith(c, <<FENCE>>)
        THEN ReplaceCloseFence(ReplaceOpenFence(c, 1))
        ELSE c

(***************************************************************************)
(* JSON.parse over tokens.  Whitespace between tokens is the newline only. *)
(* The result: ok, whether the value is an array, and the array's          *)
(* elements (a nested array stands as the element eArr).                   *)
(***************************************************************************)
ParseFail == [ok |-> FALSE, next |-> 0, isArray |-> FALSE, items |-> <<>>]

RECURSIVE SkipNL(_)
SkipNL(s) ==
    IF s = <<>> THEN <<>>
    ELSE IF Head(s) = NL THEN SkipNL(Tail(s))
    ELSE <<Head(s)>> \o SkipNL(Tail(s))

\* ParseValue(t, i): the JSON value that starts at t[i].
\* ParseElements(t, i, acc, want): inside an array, acc the elements so far;
\* want is "first" (a value or the closing bracket), "value" (after a comma)
\* or "sep" (a comma or the closing bracket).
RECURSIVE ParseValue(_, _), ParseElements(_, _, _, _)
ParseValue(t, i) ==
    IF i > Len(t) THEN ParseFail
    ELSE IF t[i] \in EntryNames
    THEN [ok |-> TRUE, next |-> i + 1, isArray |-> FALSE, items |-> <<t[i]>>]
    ELSE IF t[i] = LB THEN ParseElements(t, i + 1, <<>>, "first")
    ELSE ParseFail

ParseElements(t, i, acc, want) ==
    IF i > Len(t) THEN ParseFail
    ELSE IF t[i] = RB /\ want \in {"first", "sep"}
    THEN [ok |-> TRUE, next |-> i + 1, isArray |-> TRUE, items |-> acc]
    ELSE IF t[i] = COMMA /\ want = "sep" THEN ParseElements(t, i + 1, acc, "value")
    ELSE IF want \in {"first", "value"}
    THEN LET v == ParseValue(t, i)
         IN  IF ~v.ok THEN ParseFail
             ELSE ParseElements(t, v.next,
                                Append(acc, IF v.isArray THEN "eArr" ELSE v.items[1]),
                                "sep")
    ELSE ParseFail

JSONParse(s) ==
    LET t == SkipNL(s)
        v == ParseValue(t, 1)
    IN  IF v.ok /\ v.next = Len(t) + 1 THEN v ELSE ParseFail

(***************************************************************************)
(* The scan-products handler                                               *)
(***************************************************************************)
DefaultConfidence == 80

SearchTemplate == "https://www.amazon.com/s?k="

\* String(p.name): what encodeURIComponent sees
NameString(n) == IF n.t = "null" THEN <<"n", "u", "l", "l">> ELSE n.s

\* A lone surrogate makes encodeURIComponent throw URIError.
EncodeThrows(chars) == \E i \in 1..Len(chars) : chars[i] = "SUR"

EncodeChar(c) ==
    CASE c = " " -> "%20"
      [] c = "&" -> "%26"
      [] OTHER -> c

\* the mutant: the name is pasted into the URL as it is
encodeURIComponentRaw(chars) == chars

encodeURIComponent(chars) == [i \in 1..Len(chars) |-> EncodeChar(chars[i])]

\* index.ts 140-142: typeof p === 'object' && p !== null && 'name' in p && 'category' in p
\* (typeof null and typeof [] are 'object' too)
KeepEntry(e) ==
    /\ Entries[e].type \in {"object", "array"}
    /\ Entries[e].name.t # Absent
    /\ Entries[e].category # Absent

\* index.ts 146: p.confidence || 0.8
ConfidenceOf(e) ==
    IF Entries[e].confidence = <<>> \/ Entries[e].confidence = <<0>>
    THEN DefaultConfidence
    ELSE Entries[e].confidence[1]

\* index.ts 143-148
ToProduct(e) ==
    [ name |-> Entries[e].name,
      category |-> Entries[e].category,
      confidence |-> ConfidenceOf(e),
      searchUrl |-> <<SearchTemplate>> \o encodeURIComponent(NameString(Entries[e].name)) ]

RECURSIVE FilterEntries(_)
FilterEntries(items) ==
    IF items = <<>> THEN <<>>
    ELSE IF KeepEntry(Head(items)) THEN <<Head(items)>> \o FilterEntries(Tail(items))
    ELSE FilterEntries(Tail(items))

\* the mutant: a failed parse is not caught and fails the invocation
ParseProductsUncaught(content) ==
    LET parsed == JSONParse(CleanContent(content))
        kept == FilterEntries(parsed.items)
    IN  IF ~parsed.ok \/ ~parsed.isArray
        THEN [threw |-> TRUE, products |-> <<>>]
        ELSE [threw |-> FALSE, products |-> [i \in 1..Len(kept) |-> ToProduct(kept[i])]]

\* index.ts 125-156: the parse step.  Whatever throws inside the try (JSON.parse,
\* encodeURIComponent) leaves products empty.
ParseProducts(content) ==
    LET parsed == JSONParse(CleanContent(content))
        kept == FilterEntries(parsed.items)
    IN  IF ~parsed.ok THEN [threw |-> FALSE, products |-> <<>>]
        ELSE IF ~parsed.isArray THEN [threw |-> FALSE, products |-> <<>>]
        ELSE IF \E i \in 1..Len(kept) : EncodeThrows(NameString(Entries[kept[i]].name))
        THEN [threw |-> FALSE, products |-> <<>>]
        ELSE [threw |-> FALSE, products |-> [i \in 1..Len(kept) |-> ToProduct(kept[i])]]

RateLimitMsg == "Rate limit exceeded. Please try again in a moment."
QuotaMsg == "AI usage limit reached. Please upgrade your plan."
NoImageMsg == "No image data provided"
NoKeyMsg == "AI service not configured"
UpstreamFetchMsg == "fetch failed"
BadBodyMsg == "Unexpected token in JSON"
ParseThrewMsg == "parse error"
AiApiErrorMsg(status) == "AI API error: " \o ToString(status)

Resp(status, products, error) ==
    [status |-> status, products |-> products, error |-> error]

\* index.ts 120: aiResponse.choices?.[0]?.message?.content || "[]"
ContentOf(up) == IF up.content = <<>> THEN <<LB, RB>> ELSE up.content

\* index.ts 17-171.  req: the request body; up: the gateway's behaviour
\* (apiKey: LOVABLE_API_KEY is set; net: the fetch resolves; status; bodyOk:
\* the body is JSON; content: the model's answer).
Handler(req, up) ==
    IF req.imageData = "" THEN Resp(400, <<>>, NoImageMsg)
    ELSE IF ~up.apiKey THEN Resp(500, <<>>, NoKeyMsg)
    ELSE IF ~up.net THEN Resp(500, <<>>, UpstreamFetchMsg)
    ELSE IF up.status = 429 THEN Resp(429, <<>>, RateLimitMsg)
    ELSE IF up.status = 402 THEN Resp(402, <<>>, QuotaMsg)
    ELSE IF up.status \notin 200..299 THEN Resp(500, <<>>, AiApiErrorMsg(up.status))
    ELSE IF ~up.bodyOk THEN Resp(500, <<>>, BadBodyMsg)
    ELSE LET r == ParseProducts(ContentOf(up))
         IN  IF r.threw THEN Resp(500, <<>>, ParseThrewMsg)
             ELSE Resp(200, r.products, "")

(***************************************************************************)
(* Inputs of the handler                                                   *)
(***************************************************************************)
RawAlphabet == {FENCE, JSONW, NL, NBSP, LB, RB, COMMA, "eFull"}

RawContents == Seqs(RawAlphabet, MaxRawLen)

RECURSIVE JoinComma(_)
JoinComma(a) ==
    IF Len(a) <= 1 THEN a ELSE <<Head(a), COMMA>> \o JoinComma(Tail(a))

\* JSON text of an array of entries
Serialize(a) == <<LB>> \o JoinComma(a) \o <<RB>>

\* a Markdown fenced block around c, with and without the language tag
WrapJson(c) == <<FENCE, JSONW, NL>> \o c \o <<NL, FENCE>>
WrapBare(c) == <<FENCE, NL>> \o c \o <<NL, FENCE>>

ArrayContents == {Serialize(a) : a \in Seqs(EntryNames, MaxEntries)}

Contents ==
    RawContents \cup ArrayContents
        \cup {WrapJson(c) : c \in ArrayContents}
        \cup {WrapBare(c) : c \in ArrayContents}

Up(apiKey, net, status, bodyOk, content) ==
    [apiKey |-> apiKey, net |-> net, status |-> status, bodyOk |-> bodyOk,
     content |-> content]

FailingUpstreams ==
    {Up(FALSE, TRUE, 200, TRUE, <<>>), Up(TRUE, FALSE, 200, TRUE, <<>>),
     Up(TRUE, TRUE, 200, FALSE, <<>>)}
        \cup {Up(TRUE, TRUE, st, TRUE, <<>>) : st \in {429, 402, 500, 503}}

Upstreams == FailingUpstreams \cup {Up(TRUE, TRUE, 200, TRUE, c) : c \in Contents}

Body(imageData, videoId, isUrl) ==
    [imageData |-> imageData, videoId |-> videoId, isUrl |-> isUrl]

SvcRequests == {Body("", "v1", "false"), Body("data:image/jpeg", "v1", "false")}

NoResponse == Resp(0, <<>>, "")

(***************************************************************************)
(* The handler as a one-step process                                       *)
(***************************************************************************)
Serve ==
    /\ svcPc = "start"
    /\ response' = Handler(request, upstream)
    /\ svcPc' = "done"
    /\ UNCHANGED <<request, upstream>>
    /\ UNCHANGED pageVars
    /\ UNCHANGED auxVars

(***************************************************************************)
(* extractYoutubeId (part_000 104-122)                                     *)
(*                                                                         *)
(* A locator is written with pieces (a scheme, a host, a path word, an     *)
(* identifier, ...); the function sees its characters.                     *)
(***************************************************************************)
\* the characters of a piece
Chars(t) ==
    IF t = "https://" THEN <<"h", "t", "t", "p", "s", ":", "/", "/">> ELSE
    IF t = "www." THEN <<"w", "w", "w", ".">> ELSE
    IF t = "youtube.com/" THEN <<"y", "o", "u", "t", "u", "b", "e", ".", "c", "o", "m", "/">> ELSE
    IF t = "youtu.be/" THEN <<"y", "o", "u", "t", "u", ".", "b", "e", "/">> ELSE
    IF t = "watch?" THEN <<"w", "a", "t", "c", "h", "?">> ELSE
    IF t = "v=" THEN <<"v", "=">> ELSE
    IF t = "embed/" THEN <<"e", "m", "b", "e", "d", "/">> ELSE
    IF t = "v/" THEN <<"v", "/">> ELSE
    IF t = "shorts/" THEN <<"s", "h", "o", "r", "t", "s", "/">> ELSE
    IF t = "live/" THEN <<"l", "i", "v", "e", "/">> ELSE
    IF t = "&" THEN <<"&">> ELSE
    IF t = "t=1" THEN <<"t", "=", "1">> ELSE
    IF t = "re" THEN <<"r", "e">> ELSE
    IF t = "x" THEN <<"x">> ELSE
    IF t = "not" THEN <<"n", "o", "t">> ELSE
    IF t = " " THEN <<" ">> ELSE
    IF t = "dQw4w9WgXcQ" THEN <<"d", "Q", "w", "4", "w", "9", "W", "g", "X", "c", "Q">> ELSE
    IF t = "AAAAAAAAAAA" THEN <<"A", "A", "A", "A", "A", "A", "A", "A", "A", "A", "A">> ELSE
    IF t = "cdn.example/1.mp4" THEN <<"c", "d", "n", ".", "e", "x", "a", "m", "p", "l", "e", "/", "1", ".", "m", "p", "4">> ELSE
    <<t>>

RECURSIVE Text(_)
\* the string a sequence of pieces spells
Text(pieces) ==
    IF pieces = <<>> THEN <<>> ELSE Chars(Head(pieces)) \o Text(Tail(pieces))

\* [a-zA-Z0-9_-]
IdChars ==
    { "a", "b", "c", "d", "e", "f", "g", "h", "i", "j", "k", "l", "m", "n", "o", "p",
      "q", "r", "s", "t", "u", "v", "w", "x", "y", "z", "A", "B", "C", "D", "E", "F",
      "G", "H", "I", "J", "K", "L", "M", "N", "O", "P", "Q", "R", "S", "T", "U", "V",
      "W", "X", "Y", "Z", "0", "1", "2", "3", "4", "5", "6", "7", "8", "9", "_", "-" }

\* the length of the captured group: {11}
IdLen == 11

\* the literal heads of the seven patterns, in the order they are tried
PatternHeads ==
    << Text(<<"youtube.com/", "watch?", "v=">>),
       Text(<<"youtube.com/", "watch?">>),        \* followed by .*v=
       Text(<<"youtu.be/">>),
       Text(<<"youtube.com/", "embed/">>),
       Text(<<"youtube.com/", "v/">>),
       Text(<<"youtube.com/", "shorts/">>),
       Text(<<"youtube.com/", "live/">>) >>

\* the literal lit stands at position p of s
LiteralAt(s, p, lit) ==
    /\ p + Len(lit) - 1 <= Len(s)
    /\ SubSeq(s, p, p + Len(lit) - 1) = lit

\* ([a-zA-Z0-9_-]{11}) matches at position q of s
IdAt(s, q) ==
    /\ q + IdLen - 1 <= Len(s)
    /\ \A k \in q..(q + IdLen - 1) : s[k] \in IdChars

RECURSIVE Joined(_)
\* a sequence of characters as one string
Joined(chars) == IF chars = <<>> THEN "" ELSE Head(chars) \o Joined(Tail(chars))

\* where the group of pattern n can start in s: after the literal head, and for
\* the second pattern after any later "v="
GroupStarts(s, n) ==
    IF n = 2
    THEN {q \in 1..Len(s) :
            /\ IdAt(s, q)
            /\ q > 2
            /\ LiteralAt(s, q - 2, Text(<<"v=">>))
            /\ \E p \in 1..q : /\ LiteralAt(s, p, PatternHeads[2])
                               /\ p + Len(PatternHeads[2]) <= q - 2}
    ELSE {q \in 1..Len(s) :
            /\ IdAt(s, q)
            /\ q > Len(PatternHeads[n])
            /\ LiteralAt(s, q - Len(PatternHeads[n]), PatternHeads[n])}

\* url.match(pattern): the leftmost match; for the second pattern the match
\* starts at the leftmost "youtube.com/watch?" that has a "v=" and an
\* identifier after it, and the greedy .* runs to the last such "v="
MatchGroup(s, n) ==
    LET starts == GroupStarts(s, n)
        q == IF n = 2
             THEN CHOOSE x \in starts : \A y \in starts : y <= x
             ELSE CHOOSE x \in starts : \A y \in starts : x <= y
    IN  IF starts = {} THEN <<>> ELSE SubSeq(s, q, q + IdLen - 1)

RECURSIVE FirstMatch(_, _)
\* part_000 115-121: the loop over the patterns
FirstMatch(s, n) ==
    IF n > Len(PatternHeads) THEN ""
    ELSE IF MatchGroup(s, n) # <<>> THEN Joined(MatchGroup(s, n))
    ELSE FirstMatch(s, n + 1)

\* part_000 104-122; "" stands for null
extractYoutubeId(s) == FirstMatch(s, 1)

\* the identifiers the locators are written with
VideoIds == {"dQw4w9WgXcQ", "AAAAAAAAAAA"}

\* scheme and subdomain in front of the host
Prefixes == {<<>>, <<"https://">>, <<"https://", "www.">>}

\* the seven surface forms of the video v
Forms(v) ==
    UNION {{ pre \o <<"youtube.com/", "watch?", "v=", v>>,
             pre \o <<"youtube.com/", "watch?", "v=", v, "&", "t=1">>,
             pre \o <<"youtube.com/", "watch?", "t=1", "&", "v=", v>>,
             pre \o <<"youtu.be/", v>>,
             pre \o <<"youtube.com/", "embed/", v>>,
             pre \o <<"youtube.com/", "v/", v>>,
             pre \o <<"youtube.com/", "shorts/", v>>,
             pre \o <<"youtube.com/", "live/", v>> } : pre \in Prefixes}

UrlAlphabet ==
    {"https://", "youtube.com/", "youtu.be/", "watch?", "v=", "embed/", "&", "x",
     "not", " "} \cup VideoIds

UrlInputs == UNION {Forms(v) : v \in VideoIds} \cup Seqs(UrlAlphabet, MaxUrlLen)

RECURSIVE TrimmedUrl(_)
\* Dashboard.tsx 224: url.trim()
TrimmedUrl(s) ==
    IF s = <<>> THEN s
    ELSE IF Head(s) = " " THEN TrimmedUrl(Tail(s))
    ELSE IF s[Len(s)] = " " THEN TrimmedUrl(SubSeq(s, 1, Len(s) - 1))
    ELSE s

\* Dashboard.tsx 223-246: the seven patterns of the player on the trimmed
\* locator, then /^([a-zA-Z0-9_-]{11})$/; "" stands for null
extractYoutubeIdDashboard(s) ==
    LET t == TrimmedUrl(s)
    IN  IF FirstMatch(t, 1) # "" THEN FirstMatch(t, 1)
        ELSE IF Len(t) = IdLen /\ IdAt(t, 1) THEN Joined(t)
        ELSE ""

\* Dashboard.tsx 106-110: handleYoutubeUpload calls the Dashboard's
\* extractYoutubeId on the locator typed in
ExtractDashboard ==
    /\ dashPc = "start"
    /\ dashYtId' = extractYoutubeIdDashboard(Text(url))
    /\ dashPc' = "done"
    /\ UNCHANGED <<url, ytId, exPc>>
    /\ UNCHANGED svcVars
    /\ UNCHANGED pageVars
    /\ UNCHANGED placeVars
    /\ UNCHANGED dashVars
    /\ UNCHANGED ytVars
    /\ UNCHANGED timeVars

\* one call of the player's extractYoutubeId
Extract ==
    /\ exPc = "start"
    /\ ytId' = extractYoutubeId(Text(url))
    /\ exPc' = "done"
    /\ UNCHANGED <<url, dashYtId, dashPc>>
    /\ UNCHANGED svcVars
    /\ UNCHANGED pageVars
    /\ UNCHANGED placeVars
    /\ UNCHANGED dashVars
    /\ UNCHANGED ytVars
    /\ UNCHANGED timeVars

(***************************************************************************)
(* The VideoPlayer page                                                    *)
(***************************************************************************)
\* The rows of the videos table the page can be opened on.  v3 was stored by
\* the Dashboard from a bare 11-character id (Dashboard.tsx 235).
Library ==
    [ v1 |-> [source_type |-> "upload",
              video_url |-> Text(<<"https://", "cdn.example/1.mp4">>)],
      v2 |-> [source_type |-> "youtube",
              video_url |-> Text(<<"https://", "www.", "youtube.com/", "watch?", "v=",
                                   "dQw4w9WgXcQ">>)],
      v3 |-> [source_type |-> "youtube", video_url |-> Text(<<"dQw4w9WgXcQ">>)] ]

Ids == DOMAIN Library

NoVideo == "none"

\* part_000 132 and 339: extractYoutubeId(video.video_url), for each row
YoutubeIdOf == [v \in Ids |-> extractYoutubeId(Library[v].video_url)]

\* part_000 319-322
getYoutubeThumbnail(videoId) ==
    "https://img.youtube.com/vi/" \o videoId \o "/maxresdefault.jpg"

IsYoutube == video # NoVideo /\ Library[video].source_type = "youtube"

\* videoRef.current is set: the <video> element is rendered
HasVideoEl == mounted /\ video # NoVideo /\ ~IsYoutube

NoToast == [title |-> "", description |-> ""]
Toast(title, description) == [title |-> title, description |-> description]

CaptureFailedToast == Toast("Could not capture frame", "Please try again.")
NoProductsToast ==
    Toast("No products found", "Try scanning a different frame with visible products.")
ProductsFoundToast(n) ==
    Toast("Products found!",
          "Discovered " \o ToString(n) \o " shoppable item" \o (IF n > 1 THEN "s" ELSE ""))
ScanFailedToast(msg) ==
    Toast("Scan failed", IF msg = "" THEN "Please try again later." ELSE msg)

NoUp == Up(FALSE, FALSE, 0, FALSE, <<>>)
Event(ev) ==
    [ev |-> ev, up |-> NoUp, net |-> "", live |-> TRUE, videoId |-> "", video |-> NoVideo]

Captured(threw, data) == [threw |-> threw, data |-> data]

\* part_000 293-317.  tainted: drawImage/toDataURL throws (caught, null)
captureFrame(tainted) ==
    IF ~HasVideoEl THEN Captured(FALSE, "")
    ELSE IF videoWidth = 0 \/ videoHeight = 0 THEN Captured(FALSE, "")
    ELSE IF tainted THEN Captured(FALSE, "")
    ELSE Captured(FALSE, "data:image/jpeg")

\* part_000 910-924.  No dimension check: a canvas without pixels gives
\* toDataURL() = "data:,"; a tainted canvas makes toDataURL throw.
captureFrame2(tainted) ==
    IF ~HasVideoEl THEN Captured(FALSE, "")
    ELSE IF videoWidth = 0 \/ videoHeight = 0 THEN Captured(FALSE, "data:,")
    ELSE IF tainted THEN Captured(TRUE, "")
    ELSE Captured(FALSE, "data:image/jpeg")

\* part_000 337-347 (source 1), 932 (source 2)
ImageData(tainted) ==
    IF source = 2 THEN captureFrame2(tainted)
    ELSE IF IsYoutube
    THEN LET videoId == YoutubeIdOf[video]
         IN  Captured(FALSE, IF videoId # "" THEN getYoutubeThumbnail(videoId) ELSE "")
    ELSE captureFrame(tainted)

\* part_000 363-369 (source 1), 947-952 (source 2: no isUrl)
RequestBody(imageData) ==
    Body(imageData, id,
         IF source = 2 THEN "undefined" ELSE IF IsYoutube THEN "true" ELSE "false")

\* the mutant: the button stays enabled during a scan
ScanButtonNeverDisabled == FALSE

\* part_000 561-564 (YouTube controls), 709-712 and 1174-1177 (native controls)
ScanButtonDisabled ==
    IF source = 1 /\ IsYoutube THEN isScanning ELSE isScanning \/ isPlaying

\* the Scan Products button is on screen
ScanButtonShown ==
    mounted /\ video # NoVideo /\ (source = 1 \/ ~IsYoutube)

\* part_000 328-335 (source 1), 927-930 (source 2): the pause step calls
\* pauseVideo() on the player or pause() on the element
PauseIssued ==
    IF source = 2 THEN isPlaying /\ HasVideoEl
    ELSE IF IsYoutube /\ ytPlayerRef THEN TRUE
    ELSE HasVideoEl

\* part_000 328-335 (source 1), 927-930 (source 2): the pause step
PausedIsPlaying ==
    IF source = 2 THEN FALSE
    ELSE IF IsYoutube /\ ytPlayerRef THEN FALSE
    ELSE IF HasVideoEl THEN FALSE
    ELSE isPlaying

\* the mutant: the previous results stay until the reply
ClearedProductsKept == scannedProducts

\* part_000 360
ClearedProducts == <<>>

\* the mutant: the results are cleared before the capture is tested
KeptProductsCleared == <<>>

\* part_000 349-356 and 933-940: the return on a failed capture comes before
\* setScannedProducts([]) (360, 944)
KeptProducts == scannedProducts

\* part_000 324-369 and 926-952: scanProducts up to the await
scanProducts(tainted) ==
    LET cap == ImageData(tainted)
    IN  /\ isPlaying' = PausedIsPlaying
        /\ last' = Event("scan")
        /\ IF cap.threw
           THEN /\ toast' = NoToast
                /\ scannedProducts' = KeptProducts
                /\ UNCHANGED <<isScanning, showProducts, inflight>>
           ELSE IF cap.data = ""
           THEN /\ toast' = CaptureFailedToast
                /\ scannedProducts' = KeptProducts
                /\ UNCHANGED <<isScanning, showProducts, inflight>>
           ELSE /\ isScanning' = TRUE
                /\ showProducts' = FALSE
                /\ scannedProducts' = ClearedProducts
                /\ inflight' = Append(inflight,
                                      [body |-> RequestBody(cap.data), live |-> TRUE,
                                       video |-> video])
                /\ toast' = NoToast

\* a click on the Scan Products button
ClickScan ==
    /\ ScanButtonShown
    /\ ~ScanButtonDisabled
    /\ Len(inflight) < MaxInflight
    /\ \E tainted \in BOOLEAN : scanProducts(tainted)
    /\ UNCHANGED <<source, mounted, id, video, fetches, videoWidth, videoHeight,
                   ytPlayerRef, ytReady>>
    /\ UNCHANGED svcVars
    /\ UNCHANGED auxVars

FunctionsHttpErrorMsg == "Edge Function returned a non-2xx status code"
FunctionsFetchErrorMsg == "Failed to send a request to the Edge Function"
TypeErrorMsg == "Cannot read properties of null (reading 'products')"

\* part_000 363: what supabase.functions.invoke resolves to.  net: "ok" the
\* function's Response came back; "fail" the request never got there; "null"
\* a 2xx reply whose JSON body is null.
Invoke(net, resp) ==
    IF net = "fail" THEN [data |-> "null", products |-> <<>>, error |-> FunctionsFetchErrorMsg]
    ELSE IF net = "null" THEN [data |-> "null", products |-> <<>>, error |-> ""]
    ELSE IF resp.status \in 200..299
    THEN [data |-> "object", products |-> resp.products, error |-> ""]
    ELSE [data |-> "null", products |-> <<>>, error |-> FunctionsHttpErrorMsg]

\* Math.random() * 10, sampled at both ends of [0, 10)
Jitters == {0, 9}

\* the mutant: four columns instead of three
PositionOfFourColumns(i, jx, jy) ==
    [x |-> 10 + (i % 4) * 30 + jx, y |-> 10 + (i \div 4) * 25 + jy]

\* the mutant: one band for all rows
PositionOfOneBand(i, jx, jy) ==
    [x |-> 10 + (i % 3) * 30 + jx, y |-> 10 + jy]

\* part_000 377-380: the position of the product at index i, for the two
\* values of Math.random() * 10
PositionOf(i, jx, jy) ==
    [x |-> 10 + (i % 3) * 30 + jx, y |-> 10 + (i \div 3) * 25 + jy]

\* part_000 374-381
WithPositions(products, jx, jy) ==
    [i \in 1..Len(products) |->
        [ name |-> products[i].name,
          category |-> products[i].category,
          confidence |-> products[i].confidence,
          searchUrl |-> products[i].searchUrl,
          id |-> i - 1,
          position |-> PositionOf(i - 1, jx[i], jy[i]) ]]

NoPosition == [x |-> 0, y |-> 0]

\* part_000 374-381: one call of the map callback, for the product at index
PlaceProduct ==
    /\ index < productCount
    /\ \E jx \in Jitters, jy \in Jitters : position' = PositionOf(index, jx, jy)
    /\ index' = index + 1
    /\ UNCHANGED productCount
    /\ UNCHANGED svcVars
    /\ UNCHANGED pageVars
    /\ UNCHANGED exVars
    /\ UNCHANGED dashVars
    /\ UNCHANGED ytVars
    /\ UNCHANGED timeVars

SampleContents ==
    { <<>>,
      Serialize(<<>>),
      Serialize(<<"eFull">>),
      Serialize(<<"eNoCat", "eNoConf">>),
      WrapJson(Serialize(<<"eFull">>)),
      <<"eFull">>,
      <<JSONW, LB, RB>> }

SampleUpstreams ==
    FailingUpstreams \cup {Up(TRUE, TRUE, 200, TRUE, c) : c \in SampleContents}

RemoveAt(q, i) == SubSeq(q, 1, i - 1) \o SubSeq(q, i + 1, Len(q))

\* the mutant: isScanning is reset on the success path only (no finally)
SettledIsScanningNoFinally(failed) == IF failed THEN isScanning ELSE FALSE

\* part_000 401-403: finally
SettledIsScanning(failed) == FALSE

\* part_000 371-403 and 954-987: scanProducts after the await, for the reply
\* to inflight[i].  The toast is raised whether or not the view is still
\* there; the state setters act on a mounted view only.
Settle(i, net, up) ==
    LET r == inflight[i]
        inv == Invoke(net, Handler(r.body, up))
        n == Len(inv.products)
        failed == inv.error # "" \/ inv.data = "null"
    IN  /\ inflight' = RemoveAt(inflight, i)
        /\ last' = [ev |-> "settle", up |-> up, net |-> net, live |-> r.live,
                    videoId |-> r.body.videoId, video |-> r.video]
        /\ toast' = IF inv.error # "" THEN ScanFailedToast(inv.error)
                    ELSE IF inv.data = "null" THEN ScanFailedToast(TypeErrorMsg)
                    ELSE IF n > 0 THEN ProductsFoundToast(n)
                    ELSE NoProductsToast
        /\ IF ~r.live
           THEN UNCHANGED <<isScanning, scannedProducts, showProducts>>
           ELSE /\ isScanning' = SettledIsScanning(failed)
                /\ IF ~failed /\ n > 0
                   THEN /\ \E jx \in [1..n -> Jitters], jy \in [1..n -> Jitters] :
                               scannedProducts' = WithPositions(inv.products, jx, jy)
                        /\ showProducts' = TRUE
                   ELSE UNCHANGED <<scannedProducts, showProducts>>
        /\ UNCHANGED <<source, mounted, id, video, fetches, isPlaying, videoWidth,
                       videoHeight, ytPlayerRef, ytReady>>
        /\ UNCHANGED svcVars
        /\ UNCHANGED auxVars

\* how a classification request can end: the function's reply for some
\* gateway behaviour, no reply at all, or a reply without a body
Outcomes ==
    {<<"ok", up>> : up \in SampleUpstreams} \cup {<<"fail", NoUp>>, <<"null", NoUp>>}

\* the reply of some classification request arrives
Reply ==
    \E i \in 1..Len(inflight), o \in Outcomes : Settle(i, o[1], o[2])

Orphaned(q) ==
    [i \in 1..Len(q) |-> [body |-> q[i].body, live |-> FALSE, video |-> q[i].video]]

\* the page goes away: its state is dropped, its pending callbacks find no view
Unmounted ==
    /\ mounted' = FALSE
    /\ video' = NoVideo
    /\ fetches' = {}
    /\ isPlaying' = FALSE
    /\ isScanning' = FALSE
    /\ scannedProducts' = <<>>
    /\ showProducts' = FALSE
    /\ videoWidth' = 0
    /\ videoHeight' = 0
    /\ ytPlayerRef' = FALSE
    /\ ytReady' = FALSE
    /\ inflight' = Orphaned(inflight)
    /\ UNCHANGED <<source, id>>
    /\ UNCHANGED svcVars
    /\ UNCHANGED auxVars

\* part_000 429: the back arrow, navigate("/dashboard")
Unmount ==
    /\ mounted
    /\ Unmounted
    /\ toast' = NoToast
    /\ last' = Event("other")

\* the route parameter changes under the mounted page; part_000 124-126
ChangeRoute(v) ==
    /\ mounted
    /\ v # id
    /\ id' = v
    /\ fetches' = fetches \cup {v}
    /\ toast' = NoToast
    /\ last' = Event("other")
    /\ UNCHANGED <<source, mounted, video, isPlaying, isScanning, scannedProducts,
                   showProducts, videoWidth, videoHeight, ytPlayerRef, ytReady,
                   inflight>>
    /\ UNCHANGED svcVars
    /\ UNCHANGED auxVars

\* part_000 196-216: fetchVideo after the await, the row found
FetchVideoOk(v) ==
    /\ mounted
    /\ v \in fetches
    /\ fetches' = fetches \ {v}
    /\ video' = v
    /\ IF v # video
       THEN videoWidth' = 0 /\ videoHeight' = 0
       ELSE UNCHANGED <<videoWidth, videoHeight>>
    /\ toast' = NoToast
    /\ last' = Event("other")
    /\ UNCHANGED <<source, mounted, id, isPlaying, isScanning, scannedProducts,
                   showProducts, ytPlayerRef, ytReady, inflight>>
    /\ UNCHANGED svcVars
    /\ UNCHANGED auxVars

\* part_000 206-212: fetchVideo after the await, an error: toast and navigate away
FetchVideoError(v) ==
    /\ mounted
    /\ v \in fetches
    /\ Unmounted
    /\ toast' = Toast("Error loading video", "fetch error")
    /\ last' = Event("other")

\* the <video> element has decoded its metadata (part_000 262-265, 590)
LoadedMetadata ==
    /\ HasVideoEl
    /\ videoWidth = 0
    /\ videoWidth' = 640
    /\ videoHeight' = 360
    /\ toast' = NoToast
    /\ last' = Event("other")
    /\ UNCHANGED <<source, mounted, id, video, fetches, isPlaying, isScanning,
                   scannedProducts, showProducts, ytPlayerRef, ytReady, inflight>>
    /\ UNCHANGED svcVars
    /\ UNCHANGED auxVars

\* part_000 218-233 and 857-865; the YouTube button is disabled until ytReady (535)
togglePlay ==
    /\ mounted
    /\ video # NoVideo
    /\ IF IsYoutube THEN source = 1 /\ ytReady ELSE TRUE
    /\ isPlaying' = ~isPlaying
    /\ toast' = NoToast
    /\ last' = Event("other")
    /\ UNCHANGED <<source, mounted, id, video, fetches, isScanning, scannedProducts,
                   showProducts, videoWidth, videoHeight, ytPlayerRef, ytReady,
                   inflight>>
    /\ UNCHANGED svcVars
    /\ UNCHANGED auxVars

\* part_000 591-592: the element's play and pause events
onPlayPause(playing) ==
    /\ HasVideoEl
    /\ isPlaying # playing
    /\ isPlaying' = playing
    /\ toast' = NoToast
    /\ last' = Event("other")
    /\ UNCHANGED <<source, mounted, id, video, fetches, isScanning, scannedProducts,
                   showProducts, videoWidth, videoHeight, ytPlayerRef, ytReady,
                   inflight>>
    /\ UNCHANGED svcVars
    /\ UNCHANGED auxVars

\* the mutant: the close button leaves the overlay as it is
DismissedShowProductsKept == showProducts

\* part_000 486: setShowProducts(false)
DismissedShowProducts == FALSE

\* part_000 482-489: the overlay's close button
Dismiss ==
    /\ mounted
    /\ video # NoVideo
    /\ source = 1 \/ ~IsYoutube
    /\ showProducts
    /\ scannedProducts # <<>>
    /\ showProducts' = DismissedShowProducts
    /\ toast' = NoToast
    /\ last' = Event("dismiss")
    /\ UNCHANGED <<source, mounted, id, video, fetches, isPlaying, isScanning,
                   scannedProducts, videoWidth, videoHeight, ytPlayerRef, ytReady,
                   inflight>>
    /\ UNCHANGED svcVars
    /\ UNCHANGED auxVars

\* part_000 129-147, 159-164: a player is constructed for a recognized locator
initYouTubePlayer ==
    /\ mounted
    /\ source = 1
    /\ IsYoutube
    /\ YoutubeIdOf[video] # ""
    /\ ~ytPlayerRef
    /\ ytPlayerRef' = TRUE
    /\ toast' = NoToast
    /\ last' = Event("other")
    /\ UNCHANGED <<source, mounted, id, video, fetches, isPlaying, isScanning,
                   scannedProducts, showProducts, videoWidth, videoHeight, ytReady,
                   inflight>>
    /\ UNCHANGED svcVars
    /\ UNCHANGED auxVars

\* part_000 174-176: the player's ready signal
onReady ==
    /\ mounted
    /\ ytPlayerRef
    /\ ~ytReady
    /\ ytReady' = TRUE
    /\ toast' = NoToast
    /\ last' = Event("other")
    /\ UNCHANGED <<source, mounted, id, video, fetches, isPlaying, isScanning,
                   scannedProducts, showProducts, videoWidth, videoHeight,
                   ytPlayerRef, inflight>>
    /\ UNCHANGED svcVars
    /\ UNCHANGED auxVars

\* part_000 189-191: the player reports a state change
onStateChange(playing) ==
    /\ mounted
    /\ ytPlayerRef
    /\ IsYoutube
    /\ isPlaying # playing
    /\ isPlaying' = playing
    /\ toast' = NoToast
    /\ last' = Event("other")
    /\ UNCHANGED <<source, mounted, id, video, fetches, isScanning, scannedProducts,
                   showProducts, videoWidth, videoHeight, ytPlayerRef, ytReady,
                   inflight>>
    /\ UNCHANGED svcVars
    /\ UNCHANGED auxVars

(***************************************************************************)
(* The Dashboard page (Dashboard.tsx) and the videos table                 *)
(*                                                                         *)
(* A row is named by its id; ids grow with created_at.  A request to the   *)
(* table is first executed by the table and then handled by the page.      *)
(***************************************************************************)
RECURSIVE NewestFirst(_)
\* Dashboard.tsx 76: .order("created_at", { ascending: false })
NewestFirst(S) ==
    IF S = {} THEN <<>>
    ELSE LET m == CHOOSE x \in S : \A y \in S : y <= x
         IN  <<m>> \o NewestFirst(S \ {m})

\* a request: kind "select" | "delete" | "insert"; videoId for a delete;
\* closure: the videos the handler's closure holds; phase "sent" | "ok" |
\* "error"; data: the rows a select read
Op(kind, videoId, closure) ==
    [kind |-> kind, videoId |-> videoId, closure |-> closure, phase |-> "sent",
     data |-> <<>>]

\* Dashboard.tsx 71-76: fetchVideos up to the await
FetchVideosOp == Op("select", 0, <<>>)

\* the table executes the request dashOps[i], or refuses it
TableExecutes(i) ==
    /\ i \in 1..Len(dashOps)
    /\ dashOps[i].phase = "sent"
    /\ \E ok \in BOOLEAN :
        IF ~ok
        THEN /\ dashOps' = [dashOps EXCEPT ![i].phase = "error"]
             /\ refused' = TRUE
             /\ UNCHANGED <<rows, nextVideo>>
        ELSE /\ UNCHANGED refused
             /\ dashOps' = [dashOps EXCEPT
                              ![i].phase = "ok",
                              ![i].data = IF dashOps[i].kind = "select"
                                          THEN NewestFirst(rows) ELSE <<>>]
             /\ rows' = IF dashOps[i].kind = "delete" THEN rows \ {dashOps[i].videoId}
                        ELSE IF dashOps[i].kind = "insert" THEN rows \cup {nextVideo}
                        ELSE rows
             /\ nextVideo' = IF dashOps[i].kind = "insert" THEN nextVideo + 1
                             ELSE nextVideo
    /\ dashToast' = ""
    /\ UNCHANGED <<videos, loading>>
    /\ UNCHANGED svcVars
    /\ UNCHANGED pageVars
    /\ UNCHANGED exVars
    /\ UNCHANGED placeVars
    /\ UNCHANGED ytVars
    /\ UNCHANGED timeVars

\* Dashboard.tsx 78-88: fetchVideos after the await
fetchVideos(i) ==
    /\ i \in 1..Len(dashOps)
    /\ dashOps[i].kind = "select"
    /\ dashOps[i].phase # "sent"
    /\ IF dashOps[i].phase = "ok"
       THEN videos' = dashOps[i].data /\ dashToast' = ""
       ELSE UNCHANGED videos /\ dashToast' = "Error fetching videos"
    /\ loading' = FALSE
    /\ dashOps' = RemoveAt(dashOps, i)
    /\ UNCHANGED <<rows, nextVideo, refused>>
    /\ UNCHANGED svcVars
    /\ UNCHANGED pageVars
    /\ UNCHANGED exVars
    /\ UNCHANGED placeVars
    /\ UNCHANGED ytVars
    /\ UNCHANGED timeVars

\* Dashboard.tsx 200-202 and 363, 427: the delete item of a listed video (the
\* grid is shown once loading is false), up to the await;
\* the handler keeps the videos of the render it was created in
ClickDelete(v) ==
    /\ ~loading
    /\ Len(dashOps) < MaxOps
    /\ \E k \in 1..Len(videos) : videos[k] = v
    /\ dashOps' = Append(dashOps, Op("delete", v, videos))
    /\ dashToast' = ""
    /\ UNCHANGED <<rows, nextVideo, videos, refused, loading>>
    /\ UNCHANGED svcVars
    /\ UNCHANGED pageVars
    /\ UNCHANGED exVars
    /\ UNCHANGED placeVars
    /\ UNCHANGED ytVars
    /\ UNCHANGED timeVars

\* Dashboard.tsx 204: videos.filter((v) => v.id !== videoId)
DeletedFrom(closure, v) == SelectSeq(closure, LAMBDA x : x # v)

\* Dashboard.tsx 203-215: deleteVideo after the await
deleteVideo(i) ==
    /\ i \in 1..Len(dashOps)
    /\ dashOps[i].kind = "delete"
    /\ dashOps[i].phase # "sent"
    /\ IF dashOps[i].phase = "ok"
       THEN /\ videos' = DeletedFrom(dashOps[i].closure, dashOps[i].videoId)
            /\ dashToast' = "Video deleted"
       ELSE UNCHANGED videos /\ dashToast' = "Error deleting video"
    /\ dashOps' = RemoveAt(dashOps, i)
    /\ UNCHANGED <<rows, nextVideo, refused, loading>>
    /\ UNCHANGED svcVars
    /\ UNCHANGED pageVars
    /\ UNCHANGED exVars
    /\ UNCHANGED placeVars
    /\ UNCHANGED ytVars
    /\ UNCHANGED timeVars

\* Dashboard.tsx 101, 138, 312, 352: uploading, true from the click on an add
\* button until its insert has been handled; the add buttons are disabled
Uploading == \E k \in 1..Len(dashOps) : dashOps[k].kind = "insert"

\* Dashboard.tsx 91-118 and 142-178: a video is added (a YouTube locator the
\* Dashboard accepts, or an uploaded file), up to the await of the insert
ClickAdd ==
    /\ ~Uploading
    /\ Len(dashOps) < MaxOps
    /\ nextVideo <= MaxVideos
    /\ dashOps' = Append(dashOps, Op("insert", 0, <<>>))
    /\ dashToast' = ""
    /\ UNCHANGED <<rows, nextVideo, videos, refused, loading>>
    /\ UNCHANGED svcVars
    /\ UNCHANGED pageVars
    /\ UNCHANGED exVars
    /\ UNCHANGED placeVars
    /\ UNCHANGED ytVars
    /\ UNCHANGED timeVars

\* Dashboard.tsx 120-139 and 180-197: after the await of the insert; on
\* success fetchVideos() is called
handleUpload(i) ==
    /\ i \in 1..Len(dashOps)
    /\ dashOps[i].kind = "insert"
    /\ dashOps[i].phase # "sent"
    /\ IF dashOps[i].phase = "ok"
       THEN /\ dashOps' = Append(RemoveAt(dashOps, i), FetchVideosOp)
            /\ dashToast' = "Video added!"
       ELSE /\ dashOps' = RemoveAt(dashOps, i)
            /\ dashToast' = "Error adding video"
    /\ UNCHANGED <<rows, nextVideo, videos, refused, loading>>
    /\ UNCHANGED svcVars
    /\ UNCHANGED pageVars
    /\ UNCHANGED exVars
    /\ UNCHANGED placeVars
    /\ UNCHANGED ytVars
    /\ UNCHANGED timeVars

(***************************************************************************)
(* The embedded player of the VideoPlayer page (first source, part_000     *)
(* 129-194): the IFrame API script, the YT.Player instances, the polling   *)
(* timer, and the handlers that call the player.                           *)
(***************************************************************************)
\* a YT.Player instance: the video it was constructed for, whether it has
\* signalled ready, whether destroy() was called on it, and whether one of its
\* control methods was called before it had signalled ready
Player(videoId) ==
    [videoId |-> videoId, ready |-> FALSE, destroyed |-> FALSE, calledEarly |-> FALSE]

\* part_000 153-155 and 160-162: if (ytPlayerRef.current) ytPlayerRef.current.destroy()
Destroyed(ps) ==
    IF ps = <<>> THEN ps ELSE [ps EXCEPT ![Len(ps)].destroyed = TRUE]

\* part_000 150-152: if (ytIntervalRef.current) clearInterval(ytIntervalRef.current)
ClearedTimers == IF ytIntervalRef # 0 THEN timers \ {ytIntervalRef} ELSE timers

\* part_000 159-194: initYouTubePlayer, the players after it
Constructed(ps, videoId) == Append(Destroyed(ps), Player(videoId))

\* part_000 130-133, 149: the effect of the video on screen has returned a cleanup
HasCleanup == mounted /\ IsYoutube /\ YoutubeIdOf[video] # ""

\* part_000 451: the element "youtube-player" is in the document
HasContainer == mounted /\ IsYoutube

\* part_000 196-205 and 129-157: fetchVideo after the await, the row found:
\* setVideo, then the cleanup of the previous effect and the effect of the new video
VideoFetched(v) ==
    LET ps == IF HasCleanup THEN Destroyed(ytPlayers) ELSE ytPlayers
        starts == Library[v].source_type = "youtube" /\ YoutubeIdOf[v] # ""
    IN  /\ mounted
        /\ source = 1
        /\ v \in fetches
        /\ (starts /\ windowYT = "ready") => Len(ytPlayers) < MaxPlayers
        /\ (starts /\ windowYT # "ready") => scriptTags < MaxTags
        /\ fetches' = fetches \ {v}
        /\ video' = v
        /\ IF v # video
           THEN videoWidth' = 0 /\ videoHeight' = 0
           ELSE UNCHANGED <<videoWidth, videoHeight>>
        /\ timers' = IF HasCleanup THEN ClearedTimers ELSE timers
        /\ IF starts /\ windowYT # "ready"
           THEN /\ windowYT' = "loading"
                /\ scriptTags' = scriptTags + 1
                /\ apiReadyCallback' = YoutubeIdOf[v]
                /\ ytPlayers' = ps
                /\ UNCHANGED ytPlayerRef
           ELSE IF starts
           THEN /\ ytPlayers' = Constructed(ps, YoutubeIdOf[v])
                /\ ytPlayerRef' = TRUE
                /\ UNCHANGED <<windowYT, apiReadyCallback, scriptTags>>
           ELSE /\ ytPlayers' = ps
                /\ UNCHANGED <<windowYT, apiReadyCallback, ytPlayerRef, scriptTags>>
        /\ toast' = NoToast
        /\ last' = Event("other")
        /\ UNCHANGED <<source, mounted, id, isPlaying, isScanning, scannedProducts,
                       showProducts, ytReady, inflight, ytIntervalRef>>
        /\ UNCHANGED svcVars
        /\ UNCHANGED exVars
        /\ UNCHANGED placeVars
        /\ UNCHANGED dashVars
        /\ UNCHANGED timeVars

\* the page goes away: the cleanup of its effect runs, its state is dropped;
\* the refs stay as they are for the callbacks that still hold them
TornDown ==
    /\ mounted
    /\ source = 1
    /\ ytPlayers' = IF HasCleanup THEN Destroyed(ytPlayers) ELSE ytPlayers
    /\ timers' = IF HasCleanup THEN ClearedTimers ELSE timers
    /\ mounted' = FALSE
    /\ video' = NoVideo
    /\ fetches' = {}
    /\ isPlaying' = FALSE
    /\ isScanning' = FALSE
    /\ scannedProducts' = <<>>
    /\ showProducts' = FALSE
    /\ videoWidth' = 0
    /\ videoHeight' = 0
    /\ ytReady' = FALSE
    /\ inflight' = Orphaned(inflight)
    /\ last' = Event("other")
    /\ UNCHANGED <<source, id, ytPlayerRef, windowYT, apiReadyCallback, ytIntervalRef,
                   scriptTags>>
    /\ UNCHANGED svcVars
    /\ UNCHANGED exVars
    /\ UNCHANGED placeVars
    /\ UNCHANGED dashVars
    /\ UNCHANGED timeVars

\* part_000 429 and 149-156: the back arrow, navigate("/dashboard")
Teardown == TornDown /\ toast' = NoToast

\* part_000 206-212 and 149-156: fetchVideo fails: toast, navigate("/dashboard")
VideoFetchFailed(v) ==
    /\ v \in fetches
    /\ TornDown
    /\ toast' = Toast("Error loading video", "fetch error")

\* part_000 142-144: the script has loaded and calls
\* window.onYouTubeIframeAPIReady, whatever the page shows by then.  Without
\* the container element the constructor either throws or builds an instance.
onYouTubeIframeAPIReady ==
    /\ windowYT = "loading"
    /\ Len(ytPlayers) < MaxPlayers
    /\ windowYT' = "ready"
    /\ \E built \in (IF HasContainer THEN {TRUE} ELSE BOOLEAN) :
        IF built
        THEN /\ ytPlayers' = Constructed(ytPlayers, apiReadyCallback)
             /\ ytPlayerRef' = TRUE
        ELSE /\ ytPlayers' = Destroyed(ytPlayers)
             /\ UNCHANGED ytPlayerRef
    /\ toast' = NoToast
    /\ last' = Event("other")
    /\ UNCHANGED <<apiReadyCallback, ytIntervalRef, timers, scriptTags>>
    /\ UNCHANGED <<source, mounted, id, video, fetches, isPlaying, isScanning,
                   scannedProducts, showProducts, videoWidth, videoHeight, ytReady,
                   inflight>>
    /\ UNCHANGED svcVars
    /\ UNCHANGED exVars
    /\ UNCHANGED placeVars
    /\ UNCHANGED dashVars
    /\ UNCHANGED timeVars

\* part_000 174-188: onReady of the instance k: setYtReady(true) and the
\* polling timer is started and kept in ytIntervalRef
PlayerReady(k) ==
    /\ k \in 1..Len(ytPlayers)
    /\ ~ytPlayers[k].ready
    /\ ~ytPlayers[k].destroyed
    /\ ytPlayers' = [ytPlayers EXCEPT ![k].ready = TRUE]
    /\ ytReady' = IF mounted THEN TRUE ELSE ytReady
    /\ ytIntervalRef' = k
    /\ timers' = timers \cup {k}
    /\ toast' = NoToast
    /\ last' = Event("other")
    /\ UNCHANGED <<windowYT, apiReadyCallback, scriptTags>>
    /\ UNCHANGED <<source, mounted, id, video, fetches, isPlaying, isScanning,
                   scannedProducts, showProducts, videoWidth, videoHeight,
                   ytPlayerRef, inflight>>
    /\ UNCHANGED svcVars
    /\ UNCHANGED exVars
    /\ UNCHANGED placeVars
    /\ UNCHANGED dashVars
    /\ UNCHANGED timeVars

\* ytPlayerRef.current is set and has not signalled ready
CurrentNotReady(ps) == ps # <<>> /\ ~ps[Len(ps)].ready

\* a control method (playVideo, pauseVideo, seekTo, getCurrentTime) is called
\* on ytPlayerRef.current: part_000 219-224, 249-251, 329-330
Called(ps) ==
    IF CurrentNotReady(ps) THEN [ps EXCEPT ![Len(ps)].calledEarly = TRUE] ELSE ps

\* what the call can do: a player that has not signalled ready either ignores
\* it or has no such method yet (TypeError, the handler stops there)
CallThrows(ps) == IF CurrentNotReady(ps) THEN BOOLEAN ELSE {FALSE}

\* part_000 218-233 (togglePlay) and 248-255 (seekBy) on an embedded video;
\* their buttons are disabled while ytReady is false (535, 542, 545)
EmbeddedControl(c) ==
    /\ mounted
    /\ source = 1
    /\ IsYoutube
    /\ ytReady
    /\ ytPlayers' = Called(ytPlayers)
    /\ \E threw \in CallThrows(ytPlayers) :
        isPlaying' = IF c = "togglePlay" /\ ~threw THEN ~isPlaying ELSE isPlaying
    /\ toast' = NoToast
    /\ last' = Event("other")
    /\ UNCHANGED <<windowYT, apiReadyCallback, ytIntervalRef, timers, scriptTags>>
    /\ UNCHANGED <<source, mounted, id, video, fetches, isScanning, scannedProducts,
                   showProducts, videoWidth, videoHeight, ytPlayerRef, ytReady,
                   inflight>>
    /\ UNCHANGED svcVars
    /\ UNCHANGED exVars
    /\ UNCHANGED placeVars
    /\ UNCHANGED dashVars
    /\ UNCHANGED timeVars

\* part_000 324-369 on an embedded video: the Scan Products button (561-564,
\* disabled while isScanning only), with the pause step's call to the player
ClickScanEmbedded ==
    /\ mounted
    /\ source = 1
    /\ IsYoutube
    /\ ~ScanButtonDisabled
    /\ Len(inflight) < MaxInflight
    /\ ytPlayers' = Called(ytPlayers)
    /\ \E threw \in CallThrows(ytPlayers) :
        IF threw
        THEN /\ last' = Event("scan")
             /\ toast' = NoToast
             /\ UNCHANGED <<isPlaying, isScanning, showProducts, scannedProducts,
                            inflight>>
        ELSE scanProducts(FALSE)
    /\ UNCHANGED <<windowYT, apiReadyCallback, ytIntervalRef, timers, scriptTags>>
    /\ UNCHANGED <<source, mounted, id, video, fetches, videoWidth, videoHeight,
                   ytPlayerRef, ytReady>>
    /\ UNCHANGED svcVars
    /\ UNCHANGED exVars
    /\ UNCHANGED placeVars
    /\ UNCHANGED dashVars
    /\ UNCHANGED timeVars

(***************************************************************************)
(* The playback position of the VideoPlayer page (first source): the       *)
(* currentTime and duration it shows, and the handlers that set them.      *)
(***************************************************************************)
\* the length in seconds of the media of each row
MediaDuration == [v1 |-> 3, v2 |-> 12, v3 |-> 12]

\* part_000 515 and 667: max={duration || 100}
SliderDefaultMax == 100
SliderMax == IF duration = 0 THEN SliderDefaultMax ELSE duration

\* the values the range input can report: its ends and one inside
SliderValues == {0, 1, SliderMax}

\* part_000 542, 545 and 691, 694: seekBy(-10), seekBy(10)
SeekStep == 10

\* a backend that has its metadata keeps its position within the media; an
\* element without metadata keeps the position asked for as its start position
Clamped(t) ==
    LET low == IF t < 0 THEN 0 ELSE t
    IN  IF mediaReady /\ low > MediaDuration[video] THEN MediaDuration[video] ELSE low

\* the backend that a seek reaches: the element, or the player once it is ready
Seekable == ~IsYoutube \/ mediaReady

\* part_000 196-205: fetchVideo after the await, the row found: setVideo.  The
\* new video starts at 0 without metadata; currentTime and duration are kept.
setVideo(v) ==
    /\ mounted
    /\ source = 1
    /\ v \in fetches
    /\ fetches' = fetches \ {v}
    /\ video' = v
    /\ IF v # video \/ Library[v].source_type = "youtube"
       THEN mediaTime' = 0 /\ mediaReady' = FALSE
       ELSE UNCHANGED <<mediaTime, mediaReady>>
    /\ toast' = NoToast
    /\ last' = Event("other")
    /\ UNCHANGED <<currentTime, duration>>
    /\ UNCHANGED <<source, mounted, id, isPlaying, isScanning, scannedProducts,
                   showProducts, videoWidth, videoHeight, ytPlayerRef, ytReady,
                   inflight>>
    /\ UNCHANGED svcVars
    /\ UNCHANGED exVars
    /\ UNCHANGED placeVars
    /\ UNCHANGED dashVars
    /\ UNCHANGED ytVars

\* what the handlers of the position leave alone
TimeFrame ==
    /\ toast' = NoToast
    /\ last' = Event("other")
    /\ UNCHANGED <<source, mounted, id, video, fetches, isPlaying, isScanning,
                   scannedProducts, showProducts, videoWidth, videoHeight,
                   ytPlayerRef, inflight>>
    /\ UNCHANGED svcVars
    /\ UNCHANGED exVars
    /\ UNCHANGED placeVars
    /\ UNCHANGED dashVars
    /\ UNCHANGED ytVars

\* part_000 262-265 and 590: the element has its metadata
handleLoadedMetadata ==
    /\ HasVideoEl
    /\ ~mediaReady
    /\ mediaReady' = TRUE
    /\ duration' = MediaDuration[video]
    /\ mediaTime' = IF mediaTime > MediaDuration[video]
                    THEN MediaDuration[video] ELSE mediaTime
    /\ UNCHANGED <<currentTime, ytReady>>
    /\ TimeFrame

\* part_000 257-260 and 589: the element reports its position
handleTimeUpdate ==
    /\ HasVideoEl
    /\ mediaReady
    /\ currentTime' = mediaTime
    /\ UNCHANGED <<duration, mediaTime, mediaReady, ytReady>>
    /\ TimeFrame

\* part_000 174-176: onReady of the player of the video on screen
onReadyDuration ==
    /\ mounted
    /\ IsYoutube
    /\ YoutubeIdOf[video] # ""
    /\ ~mediaReady
    /\ mediaReady' = TRUE
    /\ ytReady' = TRUE
    /\ duration' = MediaDuration[video]
    /\ UNCHANGED <<currentTime, mediaTime>>
    /\ TimeFrame

\* part_000 179-187: the polling interval started by onReady
pollCurrentTime ==
    /\ mounted
    /\ IsYoutube
    /\ mediaReady
    /\ currentTime' = mediaTime
    /\ UNCHANGED <<duration, mediaTime, mediaReady, ytReady>>
    /\ TimeFrame

\* the backend plays on by one second
Playback ==
    /\ mounted
    /\ video # NoVideo
    /\ mediaReady
    /\ mediaTime < MediaDuration[video]
    /\ mediaTime' = mediaTime + 1
    /\ UNCHANGED <<currentTime, duration, mediaReady, ytReady>>
    /\ TimeFrame

\* part_000 248-255; the buttons of the embedded view are disabled until
\* ytReady (542, 545), those of the native view never (691, 694)
seekBy(seconds) ==
    /\ mounted
    /\ video # NoVideo
    /\ IsYoutube => ytReady
    /\ mediaReady \/ mediaTime + seconds <= MaxPending
    /\ mediaTime' = IF Seekable THEN Clamped(mediaTime + seconds) ELSE mediaTime
    /\ UNCHANGED <<currentTime, duration, mediaReady, ytReady>>
    /\ TimeFrame

\* part_000 267-276; the range input of the embedded view is disabled until
\* ytReady (518), that of the native view never (664-669)
handleSeek(time) ==
    /\ mounted
    /\ video # NoVideo
    /\ IsYoutube => ytReady
    /\ time \in SliderValues
    /\ mediaTime' = IF Seekable THEN Clamped(time) ELSE mediaTime
    /\ currentTime' = time
    /\ UNCHANGED <<duration, mediaReady, ytReady>>
    /\ TimeFrame

(***************************************************************************)
(* Specifications                                                          *)
(***************************************************************************)
\* the page as useState leaves it on its first render (part_000 93-102)
PageInit(src, v) ==
    /\ source = src
    /\ mounted = TRUE
    /\ id = v
    /\ video = NoVideo
    /\ fetches = {v}
    /\ isPlaying = FALSE
    /\ isScanning = FALSE
    /\ scannedProducts = <<>>
    /\ showProducts = FALSE
    /\ videoWidth = 0
    /\ videoHeight = 0
    /\ ytPlayerRef = FALSE
    /\ ytReady = FALSE
    /\ inflight = <<>>
    /\ toast = NoToast
    /\ last = Event("other")

SvcIdle ==
    /\ request = Body("data:image/jpeg", "v1", "false")
    /\ upstream = NoUp
    /\ response = NoResponse
    /\ svcPc = "done"

ExIdle ==
    /\ url = <<>>
    /\ ytId = ""
    /\ exPc = "done"
    /\ dashYtId = ""
    /\ dashPc = "done"

PlaceIdle ==
    /\ productCount = 0
    /\ index = 0
    /\ position = NoPosition

DashIdle ==
    /\ rows = {}
    /\ nextVideo = 1
    /\ videos = <<>>
    /\ dashOps = <<>>
    /\ dashToast = ""
    /\ refused = FALSE
    /\ loading = TRUE

YtIdle ==
    /\ windowYT = "absent"
    /\ apiReadyCallback = ""
    /\ ytPlayers = <<>>
    /\ ytIntervalRef = 0
    /\ timers = {}
    /\ scriptTags = 0

TimeIdle ==
    /\ currentTime = 0
    /\ duration = 0
    /\ mediaTime = 0
    /\ mediaReady = FALSE

AuxIdle == ExIdle /\ PlaceIdle /\ DashIdle /\ YtIdle /\ TimeIdle

Init == SvcIdle /\ AuxIdle /\ \E src \in {1, 2}, v \in Ids : PageInit(src, v)

Next ==
    \/ ClickScan
    \/ Reply
    \/ Unmount
    \/ \E v \in Ids : ChangeRoute(v)
    \/ \E v \in Ids : FetchVideoOk(v)
    \/ \E v \in Ids : FetchVideoError(v)
    \/ LoadedMetadata
    \/ togglePlay
    \/ \E playing \in BOOLEAN : onPlayPause(playing)
    \/ Dismiss
    \/ initYouTubePlayer
    \/ onReady
    \/ \E playing \in BOOLEAN : onStateChange(playing)

Spec == Init /\ [][Next]_vars

\* every classification request is answered or fails: invoke settles
FairSpec == Spec /\ WF_vars(Reply)

\* one invocation of the edge function on any request and gateway behaviour
InitServe ==
    /\ request \in SvcRequests
    /\ upstream \in Upstreams
    /\ response = NoResponse
    /\ svcPc = "start"
    /\ PageInit(1, "v1")
    /\ AuxIdle

SpecServe == InitServe /\ [][Serve]_vars

\* one call of extractYoutubeId on any locator
InitExtract ==
    /\ SvcIdle
    /\ PageInit(1, "v1")
    /\ url \in UrlInputs
    /\ ytId = ""
    /\ exPc = "start"
    /\ dashYtId = ""
    /\ dashPc = "start"
    /\ PlaceIdle
    /\ DashIdle
    /\ YtIdle
    /\ TimeIdle

NextExtract == Extract \/ ExtractDashboard

SpecExtract == InitExtract /\ [][NextExtract]_vars

\* the overlays of one reply with any number of products are placed
InitPlace ==
    /\ SvcIdle
    /\ PageInit(1, "v1")
    /\ ExIdle
    /\ productCount \in 1..MaxProducts
    /\ index = 0
    /\ position = NoPosition
    /\ DashIdle
    /\ YtIdle
    /\ TimeIdle

SpecPlace == InitPlace /\ [][PlaceProduct]_vars

\* the Dashboard as it mounts on a library of any size: the list is empty
\* and fetchVideos has been called (Dashboard.tsx 41, 59-66)
InitDash ==
    /\ SvcIdle
    /\ PageInit(1, "v1")
    /\ ExIdle
    /\ PlaceIdle
    /\ nextVideo \in 1..MaxVideos
    /\ rows = 1..(nextVideo - 1)
    /\ videos = <<>>
    /\ dashOps = <<FetchVideosOp>>
    /\ dashToast = ""
    /\ refused = FALSE
    /\ loading = TRUE
    /\ YtIdle
    /\ TimeIdle

NextDash ==
    \/ \E i \in 1..MaxOps : TableExecutes(i)
    \/ \E i \in 1..MaxOps : fetchVideos(i)
    \/ \E v \in 1..MaxVideos : ClickDelete(v)
    \/ \E i \in 1..MaxOps : deleteVideo(i)
    \/ ClickAdd
    \/ \E i \in 1..MaxOps : handleUpload(i)

SpecDash == InitDash /\ [][NextDash]_vars

\* the first VideoPlayer source opened on any video, in a session where the
\* IFrame API script has or has not been loaded before
InitPlayer ==
    /\ SvcIdle
    /\ ExIdle
    /\ PlaceIdle
    /\ DashIdle
    /\ \E v \in Ids : PageInit(1, v)
    /\ windowYT \in {"absent", "ready"}
    /\ apiReadyCallback = ""
    /\ ytPlayers = <<>>
    /\ ytIntervalRef = 0
    /\ timers = {}
    /\ scriptTags = IF windowYT = "ready" THEN 1 ELSE 0
    /\ TimeIdle

NextPlayer ==
    \/ \E v \in Ids : ChangeRoute(v)
    \/ \E v \in Ids : VideoFetched(v)
    \/ \E v \in Ids : VideoFetchFailed(v)
    \/ Teardown
    \/ onYouTubeIframeAPIReady
    \/ \E k \in 1..MaxPlayers : PlayerReady(k)
    \/ \E c \in {"togglePlay", "seekBy"} : EmbeddedControl(c)
    \/ ClickScanEmbedded

\* (the classification requests sent are not answered within this specification)
SpecPlayer == InitPlayer /\ [][NextPlayer]_vars

\* the first VideoPlayer source opened on any video, with the handlers of
\* the playback position
InitTime ==
    /\ SvcIdle
    /\ ExIdle
    /\ PlaceIdle
    /\ DashIdle
    /\ YtIdle
    /\ TimeIdle
    /\ \E v \in Ids : PageInit(1, v)

NextTime ==
    \/ \E v \in Ids : ChangeRoute(v)
    \/ \E v \in Ids : setVideo(v)
    \/ handleLoadedMetadata
    \/ handleTimeUpdate
    \/ onReadyDuration
    \/ pollCurrentTime
    \/ Playback
    \/ \E seconds \in {-SeekStep, SeekStep} : seekBy(seconds)
    \/ \E time \in 0..SliderDefaultMax : handleSeek(time)

SpecTime == InitTime /\ [][NextTime]_vars

(***************************************************************************)
(* Properties                                                              *)
(***************************************************************************)
LiveRequests == {i \in 1..Len(inflight) : inflight[i].live}

\* C1: at most one classification request of the view is in flight at any
\* time; while one is, the Scan Products button is disabled, so a second
\* click issues nothing.
C1_SingleFlight ==
    /\ Cardinality(LiveRequests) <= 1
    /\ (LiveRequests # {} /\ ScanButtonShown) => ScanButtonDisabled

C1_Witness ==
    /\ mounted
    /\ isScanning
    /\ Cardinality(LiveRequests) = 1
    /\ ScanButtonShown
    /\ ScanButtonDisabled

\* C2: a reply that arrives after the viewed video has changed (the route id
\* and the video shown are no longer the video the request was made for)
\* changes neither scannedProducts nor showProducts.
C2_StaleReplyDiscarded ==
    [][(/\ last'.ev = "settle"
        /\ last'.live
        /\ id # last'.videoId
        /\ video # NoVideo
        /\ video # last'.video)
       => UNCHANGED <<scannedProducts, showProducts>>]_vars

\* C3: once isScanning is true it becomes false again, whatever the request
\* ends with, provided the request settles.
C3_ScanEnds == isScanning ~> ~isScanning

C3_Witness ==
    /\ last.ev = "settle"
    /\ last.live
    /\ toast.title = "Scan failed"
    /\ toast.description = TypeErrorMsg
    /\ ~isScanning

\* C4: while a request of the view is in flight no product is displayed:
\* scannedProducts is empty and showProducts is false.
C4_ClearedWhileInFlight ==
    LiveRequests # {} => (scannedProducts = <<>> /\ ~showProducts)

C4_Witness ==
    /\ last.ev = "scan"
    /\ LiveRequests # {}
    /\ isScanning
    /\ scannedProducts = <<>>
    /\ ~showProducts

\* C5: scanProducts on a native video whose width or height is zero raises
\* the capture-failure toast and issues no request.
C5_ZeroDimsNoRequest ==
    [][(/\ last'.ev = "scan"
        /\ HasVideoEl
        /\ (videoWidth = 0 \/ videoHeight = 0))
       => (inflight' = inflight /\ toast' = CaptureFailedToast)]_vars

\* C6: a scan whose gateway answered 429 ends with the rate-limit message,
\* one whose gateway answered 402 with the quota message, and any other
\* non-success with a message that is neither.
C6_DistinctFailureMessages ==
    (/\ last.ev = "settle"
     /\ last.net = "ok"
     /\ last.up.apiKey
     /\ last.up.net
     /\ last.up.status \notin 200..299)
    => /\ toast.title = "Scan failed"
       /\ (last.up.status = 429 <=> toast.description = RateLimitMsg)
       /\ (last.up.status = 402 <=> toast.description = QuotaMsg)

\* the model's answer, once cleaned, is no JSON text or no JSON array
NotAnArray(up) ==
    LET parsed == JSONParse(CleanContent(ContentOf(up)))
    IN  ~parsed.ok \/ ~parsed.isArray

\* C7: when the model's answer is not a JSON array or does not parse, the
\* scan ends with the "No products found" toast, not scanning, with no
\* product; it does not end as failed.
C7_MalformedIsEmpty ==
    (/\ last.ev = "settle"
     /\ last.live
     /\ last.net = "ok"
     /\ last.up.apiKey
     /\ last.up.net
     /\ last.up.status = 200
     /\ last.up.bodyOk
     /\ NotAnArray(last.up))
    => /\ toast = NoProductsToast
       /\ ~isScanning
       /\ scannedProducts = <<>>
       /\ ~showProducts

C7_Witness ==
    /\ last.ev = "settle"
    /\ last.live
    /\ last.net = "ok"
    /\ last.up.status = 200
    /\ last.up.bodyOk
    /\ last.up.content = <<JSONW, LB, RB>>
    /\ toast = NoProductsToast

\* the handler has parsed the model's answer of this invocation
Parsed ==
    /\ svcPc = "done"
    /\ request.imageData # ""
    /\ upstream.apiKey
    /\ upstream.net
    /\ upstream.status = 200
    /\ upstream.bodyOk

\* C8 as stated: for every answer c, the parse of c inside a fenced block
\* (tagged json or bare) gives the product list of the parse of c.
C8_FenceTransparent ==
    Parsed =>
        /\ ParseProducts(WrapJson(upstream.content)).products = response.products
        /\ ParseProducts(WrapBare(upstream.content)).products = response.products

RECURSIVE TrimNLLeft(_)
TrimNLLeft(s) == IF s # <<>> /\ Head(s) = NL THEN TrimNLLeft(Tail(s)) ELSE s

RECURSIVE TrimNLRight(_)
TrimNLRight(s) ==
    IF s # <<>> /\ s[Len(s)] = NL THEN TrimNLRight(DropTail(s, 1)) ELSE s

\* c is not itself opened by a fence, and the whitespace around it is
\* whitespace of JSON
PlainAnswer(c) ==
    /\ TrimNLRight(TrimNLLeft(c)) = Trim(c)
    /\ ~StartsWith(Trim(c), <<FENCE>>)

\* C8 amended: for every answer c that does not itself start with a fence and
\* is surrounded by JSON whitespace only, the parse of c inside a fenced block
\* gives the product list of the parse of c.
C8_FenceTransparentPlain ==
    (Parsed /\ PlainAnswer(upstream.content)) =>
        /\ ParseProducts(WrapJson(upstream.content)).products = response.products
        /\ ParseProducts(WrapBare(upstream.content)).products = response.products

C8_Witness ==
    /\ Parsed
    /\ PlainAnswer(upstream.content)
    /\ Len(response.products) = 2
    /\ ParseProducts(WrapJson(upstream.content)).products = response.products

\* the model answered the JSON text of an array of entries: a bracket, the
\* entries separated by commas, a bracket
AnswerInner == SubSeq(upstream.content, 2, Len(upstream.content) - 1)

IsArrayAnswer ==
    /\ Len(upstream.content) >= 2
    /\ upstream.content[1] = LB
    /\ upstream.content[Len(upstream.content)] = RB
    /\ \/ AnswerInner = <<>>
       \/ /\ Len(AnswerInner) % 2 = 1
          /\ \A k \in 1..Len(AnswerInner) :
                IF k % 2 = 1 THEN AnswerInner[k] \in EntryNames
                ELSE AnswerInner[k] = COMMA

\* the entries of that array
AnswerArray == [k \in 1..((Len(AnswerInner) + 1) \div 2) |-> AnswerInner[2 * k - 1]]

\* the entry is a JSON object with a name field and a category field
ExposesNameAndCategory(e) ==
    /\ Entries[e].type = "object"
    /\ Entries[e].name.t # Absent
    /\ Entries[e].category # Absent

Exposing(a) == SelectSeq(a, ExposesNameAndCategory)

\* decodeURIComponent on the escapes of the model
DecodeChar(c) ==
    CASE c = "%20" -> " "
      [] c = "%26" -> "&"
      [] OTHER -> c

ReservedChars == {" ", "&"}

\* C9: every product made from an entry without a confidence field has
\* confidence 0.8, and every product's search URL is the search template
\* followed by the URL-encoding of its name: no reserved character is left
\* in it and decoding it gives the name back.
C9_DefaultsAndUrl ==
    (Parsed /\ IsArrayAnswer) =>
        LET kept == Exposing(AnswerArray)
            ps == response.products
        IN  /\ \A i \in 1..Len(ps) :
                 LET enc == Tail(ps[i].searchUrl)
                 IN  /\ Head(ps[i].searchUrl) = SearchTemplate
                     /\ \A k \in 1..Len(enc) : enc[k] \notin ReservedChars
                     /\ [k \in 1..Len(enc) |-> DecodeChar(enc[k])] = NameString(ps[i].name)
            /\ Len(ps) = Len(kept) =>
                 \A i \in 1..Len(ps) :
                     Entries[kept[i]].confidence = <<>> => ps[i].confidence = 80

C9_Witness ==
    /\ Parsed
    /\ IsArrayAnswer
    /\ AnswerArray = <<"eFull", "eNoConf">>
    /\ Len(response.products) = 2
    /\ response.products[2].confidence = 80
    /\ response.products[2].searchUrl = <<SearchTemplate, "a", "%20", "%26">>

\* C10: the products are exactly the entries of the answered array that have
\* a name and a category, in the array's order.
C10_KeepsExposingEntries ==
    (Parsed /\ IsArrayAnswer) =>
        LET kept == Exposing(AnswerArray)
            ps == response.products
        IN  /\ response.status = 200
            /\ Len(ps) = Len(kept)
            /\ \A i \in 1..Len(ps) :
                 /\ ps[i].name = Entries[kept[i]].name
                 /\ ps[i].category = Entries[kept[i]].category


\* C11: every product of a scan has a non-empty string as its name and a
\* confidence within [0, 1] (0..100 hundredths), whatever the model answered.
C11_ProductsWellFormed ==
    svcPc = "done" =>
        \A i \in 1..Len(response.products) :
            /\ response.products[i].name.t = "str"
            /\ response.products[i].name.s # <<>>
            /\ response.products[i].confidence \in 0..100


\* the identifier of the video a locator of one of the seven forms names;
\* "" when the locator has none of these forms
ShapeId(u) ==
    IF \E v \in VideoIds : u \in Forms(v)
    THEN CHOOSE v \in VideoIds : u \in Forms(v)
    ELSE ""

\* C12: the player's extractYoutubeId returns the identifier of the video for
\* each of its seven surface forms, and null for a locator of no such form.
C12_ExtractsShapeId ==
    exPc = "start" \/ ytId = ShapeId(url)


\* C13: the page never stays on an embedded video whose locator matches none
\* of the recognized patterns: it reports the source and leaves the view.
C13_UnrecognizedRedirects ==
    ~(mounted /\ IsYoutube /\ YoutubeIdOf[video] = "")


\* C14: the product at index i is placed with x in [10 + (i mod 3)*30, +10)
\* and y in [10 + floor(i/3)*25, +10); the indices 0..5 fall into the three
\* x-buckets starting at 10, 40, 70 and the two y-bands starting at 10, 35.
C14_GridPosition ==
    index > 0 =>
        LET i == index - 1
            col == i - 3 * (i \div 3)
            x0 == 10 + col * 30
            y0 == 10 + (i \div 3) * 25
        IN  /\ x0 <= position.x /\ position.x < x0 + 10
            /\ y0 <= position.y /\ position.y < y0 + 10
            /\ i <= 5 =>
                /\ \E bx \in {10, 40, 70} : bx <= position.x /\ position.x < bx + 10
                /\ \E by \in {10, 35} : by <= position.y /\ position.y < by + 10

\* the sixth product (index 5) has been placed, in the last bucket of the
\* second band
C14_Witness ==
    /\ index = 6
    /\ position.x >= 70
    /\ position.y >= 35

\* C15: every position given to a product has 0 <= x <= 100 and
\* 0 <= y <= 100, whatever the number of products of the reply.
C15_PositionInViewport ==
    index > 0 =>
        /\ 0 <= position.x /\ position.x <= 100
        /\ 0 <= position.y /\ position.y <= 100


\* C16: the overlay's close button sets showProducts to false and leaves
\* scannedProducts, isScanning and isPlaying as they were, so the summary
\* list (shown while scannedProducts is not empty) still shows the products.
C16_DismissKeepsSession ==
    [][last'.ev = "dismiss" =>
          /\ ~showProducts'
          /\ scannedProducts' = scannedProducts
          /\ scannedProducts' # <<>>
          /\ isScanning' = isScanning
          /\ isPlaying' = isPlaying]_vars

\* the results of a scan have been dismissed
C16_Witness ==
    /\ last.ev = "dismiss"
    /\ ~showProducts
    /\ scannedProducts # <<>>
    /\ ~isScanning


\* what canvas.toDataURL gives: inline encoded bytes
InlineData == {"data:image/jpeg", "data:,"}

\* C17: every classification request carries isUrl = true exactly when its
\* imageData is a locator, isUrl = false exactly when it is inline bytes, and
\* the id of the video that was on screen when it was sent.
C17_RequestTagged ==
    \A i \in 1..Len(inflight) :
        /\ inflight[i].body.isUrl = "true" <=> inflight[i].body.imageData \notin InlineData
        /\ inflight[i].body.isUrl = "false" <=> inflight[i].body.imageData \in InlineData
        /\ inflight[i].body.videoId = inflight[i].video


\* the ids listed by the Dashboard
Listed == {videos[k] : k \in 1..Len(videos)}

\* C18: once every request of the Dashboard has settled, none of them refused,
\* its list holds the videos of the table: every video added and not deleted,
\* and no deleted video.
C18_ReadYourWrites ==
    (dashOps = <<>> /\ ~refused) => Listed = rows


\* the instances destroy() was not called on
AlivePlayers == {k \in 1..Len(ytPlayers) : ~ytPlayers[k].destroyed}

\* C19: once the page is torn down no player instance is alive and no polling
\* timer runs; on a mounted page the only instances alive and the only timers
\* running are those of the video on screen.
C19_NoPlayerOutlivesView ==
    /\ ~mounted => AlivePlayers = {} /\ timers = {}
    /\ mounted =>
        /\ \A k \in AlivePlayers : IsYoutube /\ ytPlayers[k].videoId = YoutubeIdOf[video]
        /\ timers \subseteq AlivePlayers

\* C20: no control method is called on a player instance before that instance
\* has signalled ready.
C20_NoCallBeforeReady ==
    \A k \in 1..Len(ytPlayers) : ~ytPlayers[k].calledEarly

\* C21: the IFrame API script is inserted at most once in a session: an
\* initialization that finds it loading or loaded inserts no other script tag
C21_ScriptInsertedOnce == scriptTags <= 1

\* C22: a mounted view has at most one polling interval running
C22_OneIntervalPerView == mounted => Cardinality(timers) <= 1

\* C23: a scan that captures a frame and sends it has issued a pause command
\* to the backend first, in the same invocation
C23_PauseBeforeCapture ==
    [][(last'.ev = "scan" /\ Len(inflight') = Len(inflight) + 1) => PauseIssued]_vars

\* C24: once the backend is ready the position shown is within the media:
\* 0 <= currentTime <= duration
C24_TimeWithinDuration ==
    (mounted /\ video # NoVideo /\ mediaReady) =>
        (0 <= currentTime /\ currentTime <= duration)

\* C25: the position given to a product differs from every position any
\* product before it in the same result can have been given, whatever the
\* jitter drawn for either
C25_NoFullOverlap ==
    index > 0 =>
        \A j \in 0..(index - 2) : \A jx \in 0..9, jy \in 0..9 :
            PositionOf(j, jx, jy) # position

\* a result of four products has been placed: the fourth is below the first
C25_Witness ==
    /\ productCount = 4
    /\ index = 4
    /\ position.x < 20

\* C26: the products on display belong to the video on display: when the
\* page comes to show another video, the products applied for the one before
\* are shown no longer
C26_ProductsOfShownVideo ==
    [][(video # NoVideo /\ video' # NoVideo /\ video' # video /\ scannedProducts # <<>>)
          => scannedProducts' = <<>>]_vars

\* C28: once every fetchVideo has resolved, the video held in state is the
\* video of the current route id, in whatever order the replies came
C28_VideoOfCurrentRoute ==
    (mounted /\ fetches = {} /\ video # NoVideo) => video = id

\* C27: a locator the Dashboard's extractYoutubeId accepts is accepted by the
\* player's extractYoutubeId, with the same identifier
C27_PlayerAcceptsStored ==
    (exPc = "done" /\ dashPc = "done" /\ dashYtId # "") => ytId = dashYtId

\* a step of scanProducts that ends at the capture: nothing is sent
CaptureFailedStep == last'.ev = "scan" /\ Len(inflight') = Len(inflight)

C30_ConfidencePreserved ==
    (Parsed /\ IsArrayAnswer /\ Len(response.products) = Len(AnswerArray)) =>
        \A i \in 1..Len(AnswerArray) :
            LET c == Entries[AnswerArray[i]].confidence
            IN  (c # <<>> /\ c[1] \in 0..100) => response.products[i].confidence = c[1]

====
